---- MODULE Spec2Model ----
(***************************************************************************)
(* Model of src/lib/calculator.ts: the buy-versus-rent NPV engine          *)
(* (annualToMonthly, calculateMortgagePayment, runModel).                  *)
(*                                                                         *)
(* Numbers.  The program computes in IEEE doubles: every arithmetic        *)
(* operation yields the exact result rounded to the nearest representable  *)
(* value.  The model keeps that structure in fixed point: a ratio (rate,   *)
(* growth factor, discount factor) is an integer count of 1/Scale, an      *)
(* amount of money is an integer count of cents, and every product and     *)
(* quotient is the exact result rounded to the nearest unit.  Sums and     *)
(* differences are exact.  Products are formed limb by limb (base K) so    *)
(* that no intermediate value leaves the 32-bit integers of the checker.   *)
(* NaN is one reserved value outside the range of the amounts and ratios:  *)
(* every operation with a NaN operand yields NaN and every comparison with *)
(* a NaN operand is false, as in the program.  A division by zero yields   *)
(* NaN or a reserved infinite value.                                       *)
(***************************************************************************)
EXTENDS Integers, Sequences, FiniteSets, TLC

K == 10 ^ 4
Scale == K * K                      \* 1.0 as a ratio
Cents == 10 * 10                    \* 1 dollar as an amount

Abs(x) == IF x < 0 THEN -x ELSE x
Sgn(x) == IF x < 0 THEN -1 ELSE 1

NaN == -2147483647
IsNaN(x) == x = NaN

\* the `+`, binary `-` and unary `-` of the source
Plus(a, b) == IF IsNaN(a) \/ IsNaN(b) THEN NaN ELSE a + b
Minus(a, b) == IF IsNaN(a) \/ IsNaN(b) THEN NaN ELSE a - b
Neg(a) == IF IsNaN(a) THEN NaN ELSE -a

\* the `>` and `>=` of the source
Greater(a, b) == ~IsNaN(a) /\ ~IsNaN(b) /\ a > b
AtLeast(a, b) == ~IsNaN(a) /\ ~IsNaN(b) /\ a >= b

\* x / 0: NaN for 0 / 0, otherwise the infinity of the sign of x
Infinity == 2147483646
DivByZero(a) == IF a = 0 THEN NaN ELSE Sgn(a) * Infinity

\* a / b for an integer b >= 0, rounded to nearest (ties away from zero)
RDiv(a, b) ==
  IF b = 0 THEN DivByZero(a)
  ELSE Sgn(a) * ((2 * Abs(a) + b) \div (2 * b))

\* a * b / Scale for a, b >= 0, rounded to nearest
MulU(a, b) ==
  LET a1 == a \div K
      a0 == a % K
      b1 == b \div K
      b0 == b % K
      mid == a1 * b0 + a0 * b1
      low == (mid % K) * K + a0 * b0
  IN  a1 * b1 + (mid \div K) + ((2 * low + Scale) \div (2 * Scale))

\* number * number where one operand is a ratio: the `*` of the source
FMul(a, b) ==
  IF IsNaN(a) \/ IsNaN(b) THEN NaN
  ELSE Sgn(a) * Sgn(b) * MulU(Abs(a), Abs(b))

\* << (10 * r) \div b, (10 * r) % b >> for 0 <= r < b, by ten additions
\* modulo b, for an r whose tenfold does not fit the integers
RECURSIVE TenTimes(_, _, _, _, _)
TenTimes(r, b, n, q, rest) ==
  IF n = 0 THEN << q, rest >>
  ELSE IF rest + r >= b
    THEN TenTimes(r, b, n - 1, q + 1, rest + r - b)
    ELSE TenTimes(r, b, n - 1, q, rest + r)

\* digits of r * Scale / b for 0 <= r < b, most significant first (base 10)
RECURSIVE DivDigits(_, _, _, _)
DivDigits(r, b, n, acc) ==
  IF n = 0
    THEN acc + (IF 2 * r >= b THEN 1 ELSE 0)
    ELSE LET step == IF r < 2 * Scale
                       THEN << (10 * r) \div b, (10 * r) % b >>
                       ELSE TenTimes(r, b, 10, 0, 0)
         IN  DivDigits(step[2], b, n - 1, 10 * acc + step[1])

\* a * Scale / b for a >= 0, b > 0, rounded to nearest (Scale = 10 ^ 8):
\* the ratio a / b of two integers, or a number divided by a ratio
DivU(a, b) == (a \div b) * Scale + DivDigits(a % b, b, 8, 0)

\* number / ratio: the `/` of the source when the divisor is a ratio
FDiv(a, b) ==
  IF IsNaN(a) \/ IsNaN(b) THEN NaN
  ELSE IF b = 0 THEN DivByZero(a)
  ELSE Sgn(a) * Sgn(b) * DivU(Abs(a), Abs(b))

\* Math.pow(base, n) for a ratio base and an integer n >= 0; the power 0 of
\* anything, NaN included, is 1
RECURSIVE Pow(_, _)
Pow(base, n) ==
  IF n = 0 THEN Scale
  ELSE IF IsNaN(base) THEN NaN
  ELSE IF n % 2 = 0
    THEN LET h == Pow(base, n \div 2) IN FMul(h, h)
    ELSE FMul(Pow(base, n - 1), base)

\* largest y in lo..hi with Pow(y, 12) <= x  (Pow is monotone in y)
RECURSIVE Bisect12(_, _, _)
Bisect12(lo, hi, x) ==
  IF hi <= lo THEN lo
  ELSE LET mid == (lo + hi + 1) \div 2
       IN  IF Pow(mid, 12) <= x THEN Bisect12(mid, hi, x)
                                ELSE Bisect12(lo, mid - 1, x)

\* Math.pow(x, 1 / 12) for a ratio x >= 0: the ratio whose 12th power is
\* nearest to x
Root12(x) ==
  LET lo == IF x >= Scale THEN Scale ELSE x
      hi == IF x >= Scale THEN Scale + ((x - Scale) \div 12) + 1 ELSE Scale
      y  == Bisect12(lo, hi, x)
  IN  IF Abs(Pow(y + 1, 12) - x) < Abs(x - Pow(y, 12)) THEN y + 1 ELSE y

\* annualToMonthly as the nominal conversion, annualRate / 12
annualToMonthlyNominal(annualRate) == RDiv(annualRate, 12)

\* calculator.ts: annualToMonthly; Math.pow of a negative base and the
\* exponent 1 / 12 is NaN
annualToMonthly(annualRate) ==
  IF Scale + annualRate < 0 THEN NaN
  ELSE Root12(Scale + annualRate) - Scale

\* calculateMortgagePayment without the zero-rate branch of lines 18-20
calculateMortgagePaymentNoZeroRate(loanAmount, monthlyRate, numPayments) ==
  LET growth == Pow(Plus(Scale, monthlyRate), numPayments)
  IN  FDiv(FMul(FMul(loanAmount, monthlyRate), growth), Minus(growth, Scale))

\* calculator.ts: calculateMortgagePayment (the PMT formula)
calculateMortgagePayment(loanAmount, monthlyRate, numPayments) ==
  IF monthlyRate = 0
    THEN RDiv(loanAmount, numPayments)
    ELSE LET growth == Pow(Plus(Scale, monthlyRate), numPayments)
         IN  FDiv(FMul(FMul(loanAmount, monthlyRate), growth),
                  Minus(growth, Scale))

(***************************************************************************)
(* Optional values (`number | null | undefined`): <<>> when absent, <<v>>  *)
(* when present.                                                           *)
(***************************************************************************)
Absent == << >>
Some(v) == << v >>
OrZero(opt) == IF opt = Absent THEN 0 ELSE opt[1]       \* `opt || 0`

MonthsPerYear == 12

(***************************************************************************)
(* Bounds and the input space.  Amounts are in cents, ratios in 1/Scale.   *)
(***************************************************************************)
MaxAnalysisYears == 2
MaxTermYears == 2

Percent(p) == p * (Scale \div 100)
Dollars(d) == d * Cents

InputSpace ==
  [ analysisYears                 : 0 .. MaxAnalysisYears,
    discountRateAnnual            : {0, Percent(5)},
    startDate                     : {Absent},
    homePrice                     : {Dollars(250000)},
    downPaymentPercent            : {0, Percent(20), Percent(100)},
    mortgageRateAnnual            : {0, Percent(6)},
    mortgageTermYears             : 0 .. MaxTermYears,
    hoaMonthly                    : {Dollars(50)},
    propertyTaxRateAnnual         : {Percent(1)},
    insuranceAnnual               : {Dollars(2000)},
    maintenanceRateAnnual         : {Percent(1)},
    homeAppreciationRateAnnual    : {Percent(3) - Percent(5), Percent(3)},
    sellingCostPercentOfHomeValue : {Percent(6)},
    sellAfterYears                : {Absent, Some(1)},
    closingCosts                  : {Absent, Some(Dollars(3000))},
    loanFees                      : {Absent, Some(Dollars(1500))},
    initialMonthlyRent            : {Dollars(2000)},
    rentInflationRateAnnual       : {Percent(3)},
    renterInsuranceMonthly        : {Absent},
    otherRentCostsMonthly         : {Some(Dollars(25))} ]

\* getDefaultInputs, lines 251-276
DefaultInputs ==
  [ analysisYears                 |-> 30,
    discountRateAnnual            |-> Percent(5),
    startDate                     |-> Absent,
    homePrice                     |-> Dollars(500000),
    downPaymentPercent            |-> Percent(20),
    mortgageRateAnnual            |-> Percent(6),
    mortgageTermYears             |-> 30,
    hoaMonthly                    |-> 0,
    propertyTaxRateAnnual         |-> Percent(1),
    insuranceAnnual               |-> Dollars(2000),
    maintenanceRateAnnual         |-> Percent(1),
    homeAppreciationRateAnnual    |-> Percent(3),
    sellingCostPercentOfHomeValue |-> Percent(6),
    sellAfterYears                |-> Absent,
    closingCosts                  |-> Some(0),
    loanFees                      |-> Some(0),
    initialMonthlyRent            |-> Dollars(2000),
    rentInflationRateAnnual       |-> Percent(3),
    renterInsuranceMonthly        |-> Some(0),
    otherRentCostsMonthly         |-> Some(0) ]

(***************************************************************************)
(* The example scenarios: the default inputs over a 10-year horizon with   *)
(* A: no appreciation and no rent inflation (6% mortgage, 30-year term);   *)
(* B: a $300,000 home, 20% down, 0% mortgage rate, 10-year term;           *)
(* C: a cash purchase, 100% down.                                          *)
(***************************************************************************)
ScenarioA ==
  [DefaultInputs EXCEPT !.analysisYears = 10,
                        !.homeAppreciationRateAnnual = 0,
                        !.rentInflationRateAnnual = 0]

ScenarioB ==
  [DefaultInputs EXCEPT !.analysisYears = 10,
                        !.homePrice = Dollars(300000),
                        !.mortgageRateAnnual = 0,
                        !.mortgageTermYears = 10]

ScenarioC ==
  [DefaultInputs EXCEPT !.analysisYears = 10,
                        !.downPaymentPercent = Percent(100)]

ScenarioInputs == {ScenarioA, ScenarioB, ScenarioC}

VARIABLES
  inputs,              \* the Inputs argument of runModel
  pc,                  \* "start" | "loop" | "done": position inside runModel
  derived,             \* the derived constants of runModel (lines 32-62)
  homeValues,          \* homeValues[0..months]
  rentPayments,        \* rentPayments[0..months]
  discountFactors,     \* discountFactors[0..months]
  mortgageBalances,    \* mortgageBalances[0..months]
  monthly,             \* MonthRecord[]: monthly[k] is the record of month k - 1
  i,                   \* loop index of the month loop
  buyCumulativeNPV,    \* running accumulator (line 120)
  rentCumulativeNPV,   \* running accumulator (line 121)
  summary,             \* Absent until runModel returns, then Some(Summary)
  previous             \* the result an earlier call returned to the caller

vars == << inputs, pc, derived, homeValues, rentPayments, discountFactors,
           mortgageBalances, monthly, i, buyCumulativeNPV, rentCumulativeNPV,
           summary, previous >>

\* runModel is entered with its argument; nothing is computed yet
Entered ==
  /\ pc = "start"
  /\ derived = Absent
  /\ homeValues = << >>
  /\ rentPayments = << >>
  /\ discountFactors = << >>
  /\ mortgageBalances = << >>
  /\ monthly = << >>
  /\ i = 0
  /\ buyCumulativeNPV = 0
  /\ rentCumulativeNPV = 0
  /\ summary = Absent

Init ==
  /\ inputs \in InputSpace \cup ScenarioInputs
  /\ Entered
  /\ previous = Absent

(***************************************************************************)
(* runModel, lines 31-62: the derived constants.                           *)
(***************************************************************************)
\* Derived calling calculateMortgagePayment whatever the term (no guard of line 60)
DerivedUnguarded(in) ==
  LET months             == in.analysisYears * MonthsPerYear
      loanAmount         == FMul(in.homePrice, Scale - in.downPaymentPercent)
      mortgageRate       == annualToMonthly(in.mortgageRateAnnual)
      mortgageTermMonths == in.mortgageTermYears * MonthsPerYear
  IN  [ months                      |-> months,
        sellMonthIndex              |->
          IF in.sellAfterYears # Absent
            THEN in.sellAfterYears[1] * MonthsPerYear
            ELSE months,
        discountRateMonthly         |-> annualToMonthly(in.discountRateAnnual),
        mortgageRateMonthly         |-> mortgageRate,
        rentInflationRateMonthly    |->
          annualToMonthly(in.rentInflationRateAnnual),
        homeAppreciationRateMonthly |->
          annualToMonthly(in.homeAppreciationRateAnnual),
        propertyTaxRateMonthly      |-> RDiv(in.propertyTaxRateAnnual, MonthsPerYear),
        maintenanceRateMonthly      |-> RDiv(in.maintenanceRateAnnual, MonthsPerYear),
        insuranceMonthly            |-> RDiv(in.insuranceAnnual, MonthsPerYear),
        loanAmount                  |-> loanAmount,
        downPayment                 |-> FMul(in.homePrice, in.downPaymentPercent),
        closingCosts                |-> OrZero(in.closingCosts),
        loanFees                    |-> OrZero(in.loanFees),
        renterInsuranceMonthly      |-> OrZero(in.renterInsuranceMonthly),
        otherRentCostsMonthly       |-> OrZero(in.otherRentCostsMonthly),
        mortgageTermMonths          |-> mortgageTermMonths,
        mortgagePayment             |->
          calculateMortgagePayment(loanAmount, mortgageRate,
                                   mortgageTermMonths) ]

\* lines 31-62
Derived(in) ==
  LET months             == in.analysisYears * MonthsPerYear
      loanAmount         == FMul(in.homePrice, Scale - in.downPaymentPercent)
      mortgageRate       == annualToMonthly(in.mortgageRateAnnual)
      mortgageTermMonths == in.mortgageTermYears * MonthsPerYear
  IN  [ months                      |-> months,
        sellMonthIndex              |->
          IF in.sellAfterYears # Absent
            THEN in.sellAfterYears[1] * MonthsPerYear
            ELSE months,
        discountRateMonthly         |-> annualToMonthly(in.discountRateAnnual),
        mortgageRateMonthly         |-> mortgageRate,
        rentInflationRateMonthly    |->
          annualToMonthly(in.rentInflationRateAnnual),
        homeAppreciationRateMonthly |->
          annualToMonthly(in.homeAppreciationRateAnnual),
        propertyTaxRateMonthly      |-> RDiv(in.propertyTaxRateAnnual, MonthsPerYear),
        maintenanceRateMonthly      |-> RDiv(in.maintenanceRateAnnual, MonthsPerYear),
        insuranceMonthly            |-> RDiv(in.insuranceAnnual, MonthsPerYear),
        loanAmount                  |-> loanAmount,
        downPayment                 |-> FMul(in.homePrice, in.downPaymentPercent),
        closingCosts                |-> OrZero(in.closingCosts),
        loanFees                    |-> OrZero(in.loanFees),
        renterInsuranceMonthly      |-> OrZero(in.renterInsuranceMonthly),
        otherRentCostsMonthly       |-> OrZero(in.otherRentCostsMonthly),
        mortgageTermMonths          |-> mortgageTermMonths,
        mortgagePayment             |->
          IF mortgageTermMonths > 0
            THEN calculateMortgagePayment(loanAmount, mortgageRate,
                                          mortgageTermMonths)
            ELSE 0 ]

\* lines 74-80: homeValues[k] = homePrice * (1 + rate) ^ k, likewise the rent
Projection(initial, monthlyRate, months) ==
  [k \in 0 .. months |-> FMul(initial, Pow(Plus(Scale, monthlyRate), k))]

\* DiscountFactors left as filled with 1 (line 83 without the loop of 84-86)
DiscountFactorsFlat(monthlyRate, months) == [k \in 0 .. months |-> Scale]

\* DiscountFactors compounding forward, (1 + rate) ^ k
DiscountFactorsCompounded(monthlyRate, months) ==
  [k \in 0 .. months |-> Pow(Plus(Scale, monthlyRate), k)]

\* lines 83-86: discountFactors, filled with 1 and then 1 / (1 + rate) ^ k
DiscountFactors(monthlyRate, months) ==
  [k \in 0 .. months |->
     IF k = 0 THEN Scale
     ELSE FDiv(Scale, Pow(Plus(Scale, monthlyRate), k))]

\* MonthZero whose purchase outflow forgets the loan fees (line 90)
MonthZeroNoFees(in, d, hv, rp, df) ==
  LET buyCF0            == -(d.downPayment + d.closingCosts)
      rentCF0           == 0
      buyDiscountedCF0  == FMul(buyCF0, df[0])
      rentDiscountedCF0 == FMul(rentCF0, df[0])
  IN  [ monthIndex        |-> 0,
        date              |-> in.startDate,
        rentPayment       |-> rp[0],
        rentCF            |-> rentCF0,
        rentDiscountedCF  |-> rentDiscountedCF0,
        rentCumulativeNPV |-> rentDiscountedCF0,
        mortgagePayment   |-> 0,
        mortgageInterest  |-> 0,
        mortgagePrincipal |-> 0,
        mortgageBalance   |-> d.loanAmount,
        propertyTax       |-> 0,
        maintenance       |-> 0,
        insurance         |-> 0,
        hoa               |-> 0,
        homeValue         |-> hv[0],
        saleProceeds      |-> 0,
        buyCF             |-> buyCF0,
        buyDiscountedCF   |-> buyDiscountedCF0,
        buyCumulativeNPV  |-> buyDiscountedCF0,
        discountFactor    |-> df[0] ]

\* MonthZero that books the sale when the sell month is month 0, as the
\* loop does for its months (lines 160-173)
MonthZeroWithSale(in, d, hv, rp, df) ==
  LET sale0             ==
        IF d.sellMonthIndex = 0
          THEN hv[0] - FMul(hv[0], in.sellingCostPercentOfHomeValue)
                 - d.loanAmount
          ELSE 0
      buyCF0            ==
        -(d.downPayment + d.closingCosts + d.loanFees) + sale0
      rentCF0           == 0
      buyDiscountedCF0  == FMul(buyCF0, df[0])
      rentDiscountedCF0 == FMul(rentCF0, df[0])
  IN  [ monthIndex        |-> 0,
        date              |-> in.startDate,
        rentPayment       |-> rp[0],
        rentCF            |-> rentCF0,
        rentDiscountedCF  |-> rentDiscountedCF0,
        rentCumulativeNPV |-> rentDiscountedCF0,
        mortgagePayment   |-> 0,
        mortgageInterest  |-> 0,
        mortgagePrincipal |-> 0,
        mortgageBalance   |-> d.loanAmount,
        propertyTax       |-> 0,
        maintenance       |-> 0,
        insurance         |-> 0,
        hoa               |-> 0,
        homeValue         |-> hv[0],
        saleProceeds      |-> sale0,
        buyCF             |-> buyCF0,
        buyDiscountedCF   |-> buyDiscountedCF0,
        buyCumulativeNPV  |-> buyDiscountedCF0,
        discountFactor    |-> df[0] ]

\* lines 88-117: the month 0 record
MonthZero(in, d, hv, rp, df) ==
  LET buyCF0            == -(d.downPayment + d.closingCosts + d.loanFees)
      rentCF0           == 0
      buyDiscountedCF0  == FMul(buyCF0, df[0])
      rentDiscountedCF0 == FMul(rentCF0, df[0])
  IN  [ monthIndex        |-> 0,
        date              |-> in.startDate,
        rentPayment       |-> rp[0],
        rentCF            |-> rentCF0,
        rentDiscountedCF  |-> rentDiscountedCF0,
        rentCumulativeNPV |-> rentDiscountedCF0,
        mortgagePayment   |-> 0,
        mortgageInterest  |-> 0,
        mortgagePrincipal |-> 0,
        mortgageBalance   |-> d.loanAmount,
        propertyTax       |-> 0,
        maintenance       |-> 0,
        insurance         |-> 0,
        hoa               |-> 0,
        homeValue         |-> hv[0],
        saleProceeds      |-> 0,
        buyCF             |-> buyCF0,
        buyDiscountedCF   |-> buyDiscountedCF0,
        buyCumulativeNPV  |-> buyDiscountedCF0,
        discountFactor    |-> df[0] ]

\* Setup with `monthly` (line 88) kept across calls instead of created per call
SetupSharedMonthly ==
  /\ pc = "start"
  /\ derived' = Derived(inputs)
  /\ homeValues' = Projection(inputs.homePrice,
                              derived'.homeAppreciationRateMonthly,
                              derived'.months)
  /\ rentPayments' = Projection(inputs.initialMonthlyRent,
                                derived'.rentInflationRateMonthly,
                                derived'.months)
  /\ discountFactors' = DiscountFactors(derived'.discountRateMonthly,
                                        derived'.months)
  /\ mortgageBalances' =
       [k \in 0 .. derived'.months |->
          IF k = 0 THEN derived'.loanAmount ELSE 0]
  /\ LET monthZero == MonthZero(inputs, derived', homeValues', rentPayments',
                                discountFactors')
     IN  /\ monthly' = Append(monthly, monthZero)
         /\ buyCumulativeNPV' = monthZero.buyDiscountedCF
         /\ rentCumulativeNPV' = monthZero.rentDiscountedCF
  /\ i' = 1
  /\ pc' = "loop"
  /\ UNCHANGED << inputs, summary, previous >>

\* runModel from entry up to the month loop (lines 31-121)
Setup ==
  /\ pc = "start"
  /\ derived' = Derived(inputs)
  /\ homeValues' = Projection(inputs.homePrice,
                              derived'.homeAppreciationRateMonthly,
                              derived'.months)
  /\ rentPayments' = Projection(inputs.initialMonthlyRent,
                                derived'.rentInflationRateMonthly,
                                derived'.months)
  /\ discountFactors' = DiscountFactors(derived'.discountRateMonthly,
                                        derived'.months)
  /\ mortgageBalances' =
       [k \in 0 .. derived'.months |->
          IF k = 0 THEN derived'.loanAmount ELSE 0]
  /\ monthly' = << MonthZero(inputs, derived', homeValues', rentPayments',
                             discountFactors') >>
  /\ buyCumulativeNPV' = monthly'[1].buyDiscountedCF
  /\ rentCumulativeNPV' = monthly'[1].rentDiscountedCF
  /\ i' = 1
  /\ pc' = "loop"
  /\ UNCHANGED << inputs, summary, previous >>

(***************************************************************************)
(* The month loop, lines 123-216.                                          *)
(***************************************************************************)

\* AmortizationStep without the final-month correction of lines 135-138
AmortizationStepNoClamp(month, termMonths, prevBalance, payment, monthlyRate) ==
  IF month <= termMonths /\ Greater(prevBalance, 0)
    THEN LET interest == FMul(prevBalance, monthlyRate)
         IN  [ mortgagePayment   |-> payment,
               mortgageInterest  |-> interest,
               mortgagePrincipal |-> Minus(payment, interest),
               mortgageBalance   |->
                 Minus(prevBalance, Minus(payment, interest)) ]
    ELSE [ mortgagePayment   |-> 0,
           mortgageInterest  |-> 0,
           mortgagePrincipal |-> 0,
           mortgageBalance   |-> 0 ]

\* AmortizationStep that keeps amortizing after the term (line 129 without
\* `i <= mortgageTermMonths`)
AmortizationStepNoTerm(month, termMonths, prevBalance, payment, monthlyRate) ==
  IF Greater(prevBalance, 0)
    THEN LET interest  == FMul(prevBalance, monthlyRate)
             principal == Minus(payment, interest)
         IN  IF Greater(principal, prevBalance)
               THEN [ mortgagePayment   |-> Plus(interest, prevBalance),
                      mortgageInterest  |-> interest,
                      mortgagePrincipal |-> prevBalance,
                      mortgageBalance   |-> 0 ]
               ELSE [ mortgagePayment   |-> payment,
                      mortgageInterest  |-> interest,
                      mortgagePrincipal |-> principal,
                      mortgageBalance   |-> Minus(prevBalance, principal) ]
    ELSE [ mortgagePayment   |-> 0,
           mortgageInterest  |-> 0,
           mortgagePrincipal |-> 0,
           mortgageBalance   |-> 0 ]

\* AmortizationStep with the operands of line 132 swapped
AmortizationStepSwapped(month, termMonths, prevBalance, payment, monthlyRate) ==
  IF month <= termMonths /\ Greater(prevBalance, 0)
    THEN LET interest  == FMul(prevBalance, monthlyRate)
             principal == Minus(interest, payment)
         IN  IF Greater(principal, prevBalance)
               THEN [ mortgagePayment   |-> Plus(interest, prevBalance),
                      mortgageInterest  |-> interest,
                      mortgagePrincipal |-> prevBalance,
                      mortgageBalance   |-> 0 ]
               ELSE [ mortgagePayment   |-> payment,
                      mortgageInterest  |-> interest,
                      mortgagePrincipal |-> principal,
                      mortgageBalance   |-> Minus(prevBalance, principal) ]
    ELSE [ mortgagePayment   |-> 0,
           mortgageInterest  |-> 0,
           mortgagePrincipal |-> 0,
           mortgageBalance   |-> 0 ]

\* AmortizationStep whose final-month correction forgets line 137: the
\* principal is clamped but the payment stays the level payment
AmortizationStepStale(month, termMonths, prevBalance, payment, monthlyRate) ==
  IF month <= termMonths /\ Greater(prevBalance, 0)
    THEN LET interest  == FMul(prevBalance, monthlyRate)
             principal == Minus(payment, interest)
         IN  IF Greater(principal, prevBalance)
               THEN [ mortgagePayment   |-> payment,
                      mortgageInterest  |-> interest,
                      mortgagePrincipal |-> prevBalance,
                      mortgageBalance   |-> 0 ]
               ELSE [ mortgagePayment   |-> payment,
                      mortgageInterest  |-> interest,
                      mortgagePrincipal |-> principal,
                      mortgageBalance   |-> Minus(prevBalance, principal) ]
    ELSE [ mortgagePayment   |-> 0,
           mortgageInterest  |-> 0,
           mortgagePrincipal |-> 0,
           mortgageBalance   |-> 0 ]

\* lines 125-143: one month of the mortgage
AmortizationStep(month, termMonths, prevBalance, payment, monthlyRate) ==
  IF month <= termMonths /\ Greater(prevBalance, 0)
    THEN LET interest  == FMul(prevBalance, monthlyRate)
             principal == Minus(payment, interest)
         IN  IF Greater(principal, prevBalance)
               THEN [ mortgagePayment   |-> Plus(interest, prevBalance),
                      mortgageInterest  |-> interest,
                      mortgagePrincipal |-> prevBalance,
                      mortgageBalance   |-> Minus(prevBalance, prevBalance) ]
               ELSE [ mortgagePayment   |-> payment,
                      mortgageInterest  |-> interest,
                      mortgagePrincipal |-> principal,
                      mortgageBalance   |-> Minus(prevBalance, principal) ]
    ELSE [ mortgagePayment   |-> 0,
           mortgageInterest  |-> 0,
           mortgagePrincipal |-> 0,
           mortgageBalance   |-> 0 ]

\* SaleProceeds with `>=` in place of `===` in line 163
SaleProceedsEveryMonthAfter(month, sellMonthIndex, homeValue, sellingCostPercent, balance) ==
  IF month >= sellMonthIndex
    THEN LET grossSale    == homeValue
             sellingCosts == FMul(grossSale, sellingCostPercent)
         IN  Minus(Minus(grossSale, sellingCosts), balance)
    ELSE 0

\* lines 160-170: net sale proceeds, only in the sell month
SaleProceeds(month, sellMonthIndex, homeValue, sellingCostPercent, balance) ==
  IF month = sellMonthIndex
    THEN LET grossSale    == homeValue
             sellingCosts == FMul(grossSale, sellingCostPercent)
         IN  Minus(Minus(grossSale, sellingCosts), balance)
    ELSE 0

\* lines 152-158 and 173: the buy cash flow of a month
BuyCashFlow(payment, propertyTax, maintenance, insurance, hoa, saleProceeds) ==
  Plus(Neg(Plus(Plus(Plus(Plus(payment, propertyTax), maintenance),
                     insurance), hoa)),
       saleProceeds)

\* RentCashFlow of the rent alone, without the two optional costs
RentCashFlowRentOnly(rentPayment, renterInsurance, otherRentCosts) == Neg(rentPayment)

\* line 176: the rent cash flow of a month
RentCashFlow(rentPayment, renterInsurance, otherRentCosts) ==
  Neg(Plus(Plus(rentPayment, renterInsurance), otherRentCosts))

\* Accumulate with `=` in place of `+=`
AccumulateOverwrite(cumulative, discounted) == discounted

\* lines 183-184: `cumulative += discounted`
Accumulate(cumulative, discounted) == Plus(cumulative, discounted)

\* one iteration of the loop body
MonthStep ==
  /\ pc = "loop"
  /\ i <= derived.months
  /\ LET d           == derived
         am          == AmortizationStep(i, d.mortgageTermMonths,
                                         mortgageBalances[i - 1],
                                         d.mortgagePayment,
                                         d.mortgageRateMonthly)
         propertyTax == FMul(homeValues[i], d.propertyTaxRateMonthly)
         maintenance == FMul(homeValues[i], d.maintenanceRateMonthly)
         insurance   == d.insuranceMonthly
         hoa         == inputs.hoaMonthly
         saleProceeds == SaleProceeds(i, d.sellMonthIndex, homeValues[i],
                                      inputs.sellingCostPercentOfHomeValue,
                                      am.mortgageBalance)
         buyCF       == BuyCashFlow(am.mortgagePayment, propertyTax,
                                    maintenance, insurance, hoa, saleProceeds)
         rentCF      == RentCashFlow(rentPayments[i], d.renterInsuranceMonthly,
                                     d.otherRentCostsMonthly)
         buyDiscountedCF  == FMul(buyCF, discountFactors[i])
         rentDiscountedCF == FMul(rentCF, discountFactors[i])
         buyCum      == Accumulate(buyCumulativeNPV, buyDiscountedCF)
         rentCum     == Accumulate(rentCumulativeNPV, rentDiscountedCF)
     IN  /\ mortgageBalances' =
              [mortgageBalances EXCEPT ![i] = am.mortgageBalance]
         /\ buyCumulativeNPV' = buyCum
         /\ rentCumulativeNPV' = rentCum
         /\ monthly' = Append(monthly,
              [ monthIndex        |-> i,
                date              |-> Absent,
                rentPayment       |-> rentPayments[i],
                rentCF            |-> rentCF,
                rentDiscountedCF  |-> rentDiscountedCF,
                rentCumulativeNPV |-> rentCum,
                mortgagePayment   |-> am.mortgagePayment,
                mortgageInterest  |-> am.mortgageInterest,
                mortgagePrincipal |-> am.mortgagePrincipal,
                mortgageBalance   |-> am.mortgageBalance,
                propertyTax       |-> propertyTax,
                maintenance       |-> maintenance,
                insurance         |-> insurance,
                hoa               |-> hoa,
                homeValue         |-> homeValues[i],
                saleProceeds      |-> saleProceeds,
                buyCF             |-> buyCF,
                buyDiscountedCF   |-> buyDiscountedCF,
                buyCumulativeNPV  |-> buyCum,
                discountFactor    |-> discountFactors[i] ])
  /\ i' = i + 1
  /\ UNCHANGED << inputs, pc, derived, homeValues, rentPayments,
                  discountFactors, summary, previous >>

(***************************************************************************)
(* After the loop, lines 218-245: break-even scan, summary, return.        *)
(***************************************************************************)

\* BreakEvenMonthIndex with `>` in place of `>=` in line 224
BreakEvenMonthIndexStrict(records) ==
  LET hits == {k \in 1 .. Len(records) :
                 Greater(records[k].buyCumulativeNPV,
                         records[k].rentCumulativeNPV)}
  IN  IF hits = {} THEN Absent
      ELSE Some((CHOOSE k \in hits : \A j \in hits : k <= j) - 1)

\* lines 221-229: the first month whose buy NPV is at least the rent NPV
BreakEvenMonthIndex(records) ==
  LET hits == {k \in 1 .. Len(records) :
                 AtLeast(records[k].buyCumulativeNPV,
                         records[k].rentCumulativeNPV)}
  IN  IF hits = {} THEN Absent
      ELSE Some((CHOOSE k \in hits : \A j \in hits : k <= j) - 1)

\* Finish when the loop of line 123 stops one month early (`i < months`)
FinishEarly ==
  /\ pc = "loop"
  /\ i >= derived.months
  /\ LET be == BreakEvenMonthIndex(monthly)
     IN  summary' = Some(
           [ months              |-> derived.months,
             buyTotalNPV         |-> buyCumulativeNPV,
             rentTotalNPV        |-> rentCumulativeNPV,
             npvDifference       |-> Minus(rentCumulativeNPV, buyCumulativeNPV),
             sellMonthIndex      |-> derived.sellMonthIndex,
             breakEvenMonthIndex |-> be,
             breakEvenYears      |->
               IF be = Absent THEN Absent
               ELSE Some(RDiv(be[1] * K, MonthsPerYear)) ])
  /\ pc' = "done"
  /\ UNCHANGED << inputs, derived, homeValues, rentPayments, discountFactors,
                  mortgageBalances, monthly, i, buyCumulativeNPV,
                  rentCumulativeNPV, previous >>

\* Finish with the operands of line 235 swapped
FinishSwappedDifference ==
  /\ pc = "loop"
  /\ i > derived.months
  /\ LET be == BreakEvenMonthIndex(monthly)
     IN  summary' = Some(
           [ months              |-> derived.months,
             buyTotalNPV         |-> buyCumulativeNPV,
             rentTotalNPV        |-> rentCumulativeNPV,
             npvDifference       |-> Minus(buyCumulativeNPV, rentCumulativeNPV),
             sellMonthIndex      |-> derived.sellMonthIndex,
             breakEvenMonthIndex |-> be,
             breakEvenYears      |->
               IF be = Absent THEN Absent
               ELSE Some(RDiv(be[1] * K, MonthsPerYear)) ])
  /\ pc' = "done"
  /\ UNCHANGED << inputs, derived, homeValues, rentPayments, discountFactors,
                  mortgageBalances, monthly, i, buyCumulativeNPV,
                  rentCumulativeNPV, previous >>

\* Finish when the loop of line 123 also stops once the home is sold
FinishAtSale ==
  /\ pc = "loop"
  /\ (i > derived.months \/ i > derived.sellMonthIndex)
  /\ LET be == BreakEvenMonthIndex(monthly)
     IN  summary' = Some(
           [ months              |-> derived.months,
             buyTotalNPV         |-> buyCumulativeNPV,
             rentTotalNPV        |-> rentCumulativeNPV,
             npvDifference       |-> Minus(rentCumulativeNPV, buyCumulativeNPV),
             sellMonthIndex      |-> derived.sellMonthIndex,
             breakEvenMonthIndex |-> be,
             breakEvenYears      |->
               IF be = Absent THEN Absent
               ELSE Some(RDiv(be[1] * K, MonthsPerYear)) ])
  /\ pc' = "done"
  /\ UNCHANGED << inputs, derived, homeValues, rentPayments, discountFactors,
                  mortgageBalances, monthly, i, buyCumulativeNPV,
                  rentCumulativeNPV, previous >>

\* lines 218-245; breakEvenYears (line 225) is kept as a count of 1/K years
Finish ==
  /\ pc = "loop"
  /\ i > derived.months
  /\ LET be == BreakEvenMonthIndex(monthly)
     IN  summary' = Some(
           [ months              |-> derived.months,
             buyTotalNPV         |-> buyCumulativeNPV,
             rentTotalNPV        |-> rentCumulativeNPV,
             npvDifference       |-> Minus(rentCumulativeNPV, buyCumulativeNPV),
             sellMonthIndex      |-> derived.sellMonthIndex,
             breakEvenMonthIndex |-> be,
             breakEvenYears      |->
               IF be = Absent THEN Absent
               ELSE Some(RDiv(be[1] * K, MonthsPerYear)) ])
  /\ pc' = "done"
  /\ UNCHANGED << inputs, derived, homeValues, rentPayments, discountFactors,
                  mortgageBalances, monthly, i, buyCumulativeNPV,
                  rentCumulativeNPV, previous >>

Next == Setup \/ MonthStep \/ Finish

Spec == Init /\ [][Next]_vars

(***************************************************************************)
(* The term comparison (lines 589-651): the caller runs the model on the   *)
(* default inputs with a 30-year horizon, once per mortgage term, and      *)
(* keeps the first result while the second is computed.                    *)
(***************************************************************************)

\* the two terms compared
ComparedTerms == {15, 30}

\* << discount rate, mortgage rate >>: cheap money, then expensive money
ComparedRates ==
  { << Percent(7), Percent(4) >>, << Percent(3), Percent(7) >> }

ComparisonInputs ==
  { [DefaultInputs EXCEPT !.analysisYears = 30,
                          !.discountRateAnnual = r[1],
                          !.mortgageRateAnnual = r[2],
                          !.mortgageTermYears = t] :
      r \in ComparedRates, t \in ComparedTerms }

ComparisonInit ==
  /\ inputs \in ComparisonInputs
  /\ Entered
  /\ previous = Absent

\* the second call: same inputs but for the other term
Rerun ==
  /\ pc = "done"
  /\ previous = Absent
  /\ \E t \in ComparedTerms \ {inputs.mortgageTermYears} :
        inputs' = [inputs EXCEPT !.mortgageTermYears = t]
  /\ previous' = Some([inputs |-> inputs, summary |-> summary[1]])
  /\ pc' = "start"
  /\ derived' = Absent
  /\ homeValues' = << >>
  /\ rentPayments' = << >>
  /\ discountFactors' = << >>
  /\ mortgageBalances' = << >>
  /\ monthly' = << >>
  /\ i' = 0
  /\ buyCumulativeNPV' = 0
  /\ rentCumulativeNPV' = 0
  /\ summary' = Absent

ComparisonNext == Next \/ Rerun

ComparisonSpec == ComparisonInit /\ [][ComparisonNext]_vars

(***************************************************************************)
(* Calls in which at least one annual rate is below -100%, so that the     *)
(* rate conversion takes a root of a negative number.                      *)
(***************************************************************************)
ConvertedRates(in) ==
  { in.discountRateAnnual, in.mortgageRateAnnual,
    in.rentInflationRateAnnual, in.homeAppreciationRateAnnual }

HasRateBelowMinusOne(in) == \E rate \in ConvertedRates(in) : Scale + rate < 0

OutOfDomainInputs ==
  { in \in
      [ analysisYears                 : 0 .. MaxAnalysisYears,
        discountRateAnnual            : {Percent(5), -Percent(150)},
        startDate                     : {Absent},
        homePrice                     : {Dollars(250000)},
        downPaymentPercent            : {Percent(20)},
        mortgageRateAnnual            : {Percent(6), -Percent(150)},
        mortgageTermYears             : 1 .. MaxTermYears,
        hoaMonthly                    : {Dollars(50)},
        propertyTaxRateAnnual         : {Percent(1)},
        insuranceAnnual               : {Dollars(2000)},
        maintenanceRateAnnual         : {Percent(1)},
        homeAppreciationRateAnnual    : {Percent(3), -Percent(150)},
        sellingCostPercentOfHomeValue : {Percent(6)},
        sellAfterYears                : {Absent},
        closingCosts                  : {Some(Dollars(3000))},
        loanFees                      : {Absent},
        initialMonthlyRent            : {Dollars(2000)},
        rentInflationRateAnnual       : {Percent(3), -Percent(150)},
        renterInsuranceMonthly        : {Absent},
        otherRentCostsMonthly         : {Some(Dollars(25))} ] :
      HasRateBelowMinusOne(in) }

OutOfDomainInit ==
  /\ inputs \in OutOfDomainInputs
  /\ Entered
  /\ previous = Absent

OutOfDomainSpec == OutOfDomainInit /\ [][Next]_vars

(***************************************************************************)
(* The page (page.tsx 90-95) calls runModel again whenever its inputs are  *)
(* set, and holds the last result until the next one arrives.  `previous`  *)
(* keeps what the earlier calls were given and what they returned.         *)
(***************************************************************************)
MaxCalls == 3

PageInputs ==
  { [DefaultInputs EXCEPT !.analysisYears = 1,
                          !.mortgageRateAnnual = r,
                          !.mortgageTermYears = t] :
      r \in {0, Percent(6)}, t \in {1, 30} }

PageInit ==
  /\ inputs \in PageInputs
  /\ Entered
  /\ previous = << >>

\* the effect of lines 90-95 firing on a change of `inputs`
Recalculate ==
  /\ pc = "done"
  /\ Len(previous) < MaxCalls - 1
  /\ inputs' \in PageInputs
  /\ previous' = Append(previous, [ inputs  |-> inputs,
                                    monthly |-> monthly,
                                    summary |-> summary[1] ])
  /\ pc' = "start"
  /\ UNCHANGED << derived, homeValues, rentPayments, discountFactors,
                  mortgageBalances, monthly, i, buyCumulativeNPV,
                  rentCumulativeNPV, summary >>

PageNext == Next \/ Recalculate

PageSpec == PageInit /\ [][PageNext]_vars

(***************************************************************************)
(* Vocabulary of the properties.  Month m of the result is monthly[m + 1]. *)
(***************************************************************************)
Months == 1 .. Len(monthly) - 1          \* the months 1..i-1 pushed so far
Rec(m) == monthly[m + 1]
Returned == pc = "done"

RECURSIVE SumBuyDiscountedCF(_)
SumBuyDiscountedCF(m) ==
  IF m < 0 THEN 0 ELSE SumBuyDiscountedCF(m - 1) + Rec(m).buyDiscountedCF

RECURSIVE SumRentDiscountedCF(_)
SumRentDiscountedCF(m) ==
  IF m < 0 THEN 0 ELSE SumRentDiscountedCF(m - 1) + Rec(m).rentDiscountedCF

\* the stock the properties call equity: home value minus ending balance
EquityOf(r) == r.homeValue - r.mortgageBalance

\* the recurring outflow of a month, read off its record
OutflowOf(r) ==
  r.mortgagePayment + r.propertyTax + r.maintenance + r.insurance + r.hoa

\* month m of the loop took the amortizing branch
Amortizing(m) ==
  m <= derived.mortgageTermMonths /\ Rec(m - 1).mortgageBalance > 0

(***************************************************************************)
(* C1.  Every MonthRecord 0..N carries an equity value equal to its home   *)
(* value minus its ending mortgage balance.                                *)
(* The records built by runModel have no equity field at all.              *)
(***************************************************************************)
C1_EquityIdentity ==
  \A k \in 1 .. Len(monthly) :
     /\ "equity" \in DOMAIN monthly[k]
     /\ monthly[k].equity = monthly[k].homeValue - monthly[k].mortgageBalance

(***************************************************************************)
(* C2.  For every month 0..N the reported buyCumulativeNPV is the running  *)
(* sum of buyDiscountedCF plus equity x discountFactor of that month.      *)
(* runModel reports the running sum alone.                                 *)
(***************************************************************************)
C2_BuyCumulativeIncludesEquity ==
  \A k \in 1 .. Len(monthly) :
     monthly[k].buyCumulativeNPV =
       SumBuyDiscountedCF(k - 1)
         + FMul(EquityOf(monthly[k]), monthly[k].discountFactor)

(***************************************************************************)
(* C3.  summary.buyTotalNPV is the sum of all months' buyDiscountedCF plus *)
(* the final month's equity times the final month's discount factor.       *)
(***************************************************************************)
C3_BuyTotalIncludesTerminalEquity ==
  Returned =>
    summary[1].buyTotalNPV =
      SumBuyDiscountedCF(derived.months)
        + FMul(EquityOf(Rec(derived.months)),
               Rec(derived.months).discountFactor)

(***************************************************************************)
(* C4.  In every month 1..N buyCF is exactly minus the recurring outflow   *)
(* (payment + tax + maintenance + insurance + HOA): never positive, and    *)
(* with no sale or equity term in any month, the last one included.        *)
(***************************************************************************)
C4_BuyCFPureOutflow ==
  \A m \in Months :
     /\ Rec(m).buyCF = -OutflowOf(Rec(m))
     /\ Rec(m).buyCF <= 0

(***************************************************************************)
(* C5.  For every month 0..N rentCumulativeNPV is the sum of the months'   *)
(* rentDiscountedCF up to it, with no stock term, and summary.rentTotalNPV *)
(* is that sum at month N.                                                 *)
(***************************************************************************)
C5_RentCumulativeIsRunningSum ==
  /\ \A k \in 1 .. Len(monthly) :
        monthly[k].rentCumulativeNPV = SumRentDiscountedCF(k - 1)
  /\ Returned => summary[1].rentTotalNPV = SumRentDiscountedCF(derived.months)

C5_Witness ==
  /\ Returned
  /\ derived.months >= MonthsPerYear
  /\ summary[1].rentTotalNPV < Rec(1).rentCumulativeNPV
  /\ Rec(1).rentCumulativeNPV < 0

(***************************************************************************)
(* C6.  For every month 1..N the balance is the previous balance minus the *)
(* month's principal, also after the term and for a zero-length term with  *)
(* a positive loan.                                                        *)
(***************************************************************************)
C6_BalanceRecurrence ==
  \A m \in Months :
     Rec(m).mortgageBalance =
       Rec(m - 1).mortgageBalance - Rec(m).mortgagePrincipal

(***************************************************************************)
(* C7.  In every amortizing month the principal paid is at most the        *)
(* previous balance: when the level payment's principal part would exceed  *)
(* it, the payment is interest + exactly the remaining balance and the new *)
(* balance is exactly 0.  Hence the balance is never negative.             *)
(***************************************************************************)
LevelPrincipal(m) == derived.mortgagePayment - Rec(m).mortgageInterest

C7_PrincipalClampedToBalance ==
  /\ \A m \in Months :
        Amortizing(m) =>
          /\ Rec(m).mortgagePrincipal <= Rec(m - 1).mortgageBalance
          /\ LevelPrincipal(m) > Rec(m - 1).mortgageBalance =>
                /\ Rec(m).mortgagePrincipal = Rec(m - 1).mortgageBalance
                /\ Rec(m).mortgagePayment =
                     Rec(m).mortgageInterest + Rec(m - 1).mortgageBalance
                /\ Rec(m).mortgageBalance = 0
  /\ \A k \in 1 .. Len(monthly) : monthly[k].mortgageBalance >= 0

C7_Witness ==
  \E m \in Months :
     /\ Amortizing(m)
     /\ LevelPrincipal(m) > Rec(m - 1).mortgageBalance
     /\ Rec(m).mortgagePayment < derived.mortgagePayment
     /\ Rec(m).mortgagePayment > 0

(***************************************************************************)
(* C8.  Payoff is absorbing: once some month has balance 0, or once the    *)
(* month index exceeds the mortgage term, every later month has payment,   *)
(* interest, principal and balance all 0.                                  *)
(***************************************************************************)
PaidOffBefore(m) == \E j \in 0 .. m - 1 : Rec(j).mortgageBalance = 0

C8_PayoffAbsorbing ==
  \A m \in Months :
     (PaidOffBefore(m) \/ m > derived.mortgageTermMonths) =>
        /\ Rec(m).mortgagePayment = 0
        /\ Rec(m).mortgageInterest = 0
        /\ Rec(m).mortgagePrincipal = 0
        /\ Rec(m).mortgageBalance = 0

\* a loan is paid down to 0 inside its term and two more months go by
C8_Witness ==
  \E m \in Months :
     /\ m + 1 \in Months
     /\ m <= derived.mortgageTermMonths
     /\ Rec(m - 1).mortgageBalance > 0
     /\ Rec(m).mortgageBalance = 0
     /\ Rec(m + 1).mortgagePayment = 0

\* the term runs out while a balance is still owed
C8_TermExpiryWitness ==
  \E m \in Months :
     /\ m > derived.mortgageTermMonths
     /\ Rec(m - 1).mortgageBalance > 0
     /\ Rec(m).mortgageBalance = 0

(***************************************************************************)
(* C9.  The balance never increases from one month to the next.            *)
(***************************************************************************)
C9_BalanceNonIncreasing ==
  \A m \in Months : Rec(m).mortgageBalance <= Rec(m - 1).mortgageBalance

C9_Witness ==
  \E m \in Months :
     /\ m + 1 \in Months
     /\ derived.mortgageRateMonthly > 0
     /\ 0 < Rec(m + 1).mortgageBalance
     /\ Rec(m + 1).mortgageBalance < Rec(m).mortgageBalance
     /\ Rec(m).mortgageBalance < Rec(m - 1).mortgageBalance

(***************************************************************************)
(* C10.  Full payoff: the balance is 0, within rounding, in every month    *)
(* from the term length on that lies within the horizon.                   *)
(***************************************************************************)
RoundingTolerance == Dollars(1)

C10_PaidOffFromTermOn ==
  \A k \in 1 .. Len(monthly) :
     k - 1 >= derived.mortgageTermMonths =>
        Abs(monthly[k].mortgageBalance) <= RoundingTolerance

\* the same for the terms that have a level payment
C10_PositiveTermPaidOff ==
  \A k \in 1 .. Len(monthly) :
     (derived.mortgageTermMonths > 0 /\ k - 1 >= derived.mortgageTermMonths) =>
        Abs(monthly[k].mortgageBalance) <= RoundingTolerance

(***************************************************************************)
(* C11.  Conservation of principal: once the horizon has covered the whole *)
(* mortgage term, the principal paid in months 1..term adds up to the      *)
(* original loan amount, within rounding.                                  *)
(* With a zero-length term and a positive loan nothing is ever paid, yet   *)
(* the balance is dropped to 0 in month 1.                                 *)
(***************************************************************************)
RECURSIVE SumPrincipal(_)
SumPrincipal(m) ==
  IF m < 1 THEN 0 ELSE SumPrincipal(m - 1) + Rec(m).mortgagePrincipal

TermCovered ==
  /\ pc # "start"
  /\ derived.mortgageTermMonths <= derived.months
  /\ Len(monthly) - 1 >= derived.mortgageTermMonths

C11_PrincipalConserved ==
  TermCovered =>
    Abs(SumPrincipal(derived.mortgageTermMonths) - derived.loanAmount)
      <= RoundingTolerance

\* the same for the terms that have a level payment
C11_PositiveTermConserved ==
  (TermCovered /\ derived.mortgageTermMonths > 0) =>
    Abs(SumPrincipal(derived.mortgageTermMonths) - derived.loanAmount)
      <= RoundingTolerance

BuyAtLeastRent(m) == Rec(m).buyCumulativeNPV >= Rec(m).rentCumulativeNPV

\* years, a count of 1/K years, is index / 12 to the last digit
IsTwelfth(years, index) ==
  Abs(years * MonthsPerYear - index * K) <= MonthsPerYear \div 2

C13_BreakEvenIsFirstCrossing ==
  Returned =>
    LET index == summary[1].breakEvenMonthIndex
        years == summary[1].breakEvenYears
    IN  /\ index = Absent <=> \A m \in 0 .. derived.months : ~BuyAtLeastRent(m)
        /\ index = Absent <=> years = Absent
        /\ index # Absent =>
             /\ index[1] \in 0 .. derived.months
             /\ BuyAtLeastRent(index[1])
             /\ \A m \in 0 .. index[1] - 1 : ~BuyAtLeastRent(m)
             /\ IsTwelfth(years[1], index[1])

\* buying overtakes renting only after the start
C13_Witness ==
  /\ Returned
  /\ summary[1].breakEvenMonthIndex # Absent
  /\ summary[1].breakEvenMonthIndex[1] > 0
  /\ summary[1].breakEvenMonthIndex[1] % MonthsPerYear # 0

\* a tie at month 0 is reported as month 0
C13_TieWitness ==
  /\ Returned
  /\ derived.months > 0
  /\ Rec(0).buyCumulativeNPV = Rec(0).rentCumulativeNPV
  /\ summary[1].breakEvenMonthIndex = Some(0)

\* buying never catches up within the horizon
C13_NeverWitness ==
  /\ Returned
  /\ derived.months > 0
  /\ summary[1].breakEvenMonthIndex = Absent

(***************************************************************************)
(* C14.  Month 0 carries only the one-time purchase outflow: its buyCF is  *)
(* -(homePrice x downPaymentPercent + closingCosts + loanFees), an absent  *)
(* closingCosts or loanFees counting as 0; its rentCF is 0; its payment,   *)
(* interest and principal are 0; its balance is the whole loan             *)
(* homePrice x (1 - downPaymentPercent).                                   *)
(***************************************************************************)
GivenOrNothing(opt) == IF Len(opt) = 0 THEN 0 ELSE opt[1]

C14_AbsentCostsWitness ==
  /\ Len(monthly) >= 1
  /\ inputs.closingCosts = Absent
  /\ inputs.loanFees = Absent
  /\ Rec(0).buyCF = -Dollars(50000)

(***************************************************************************)
(* C15.  runModel returns exactly N + 1 MonthRecords, N = analysisYears x  *)
(* 12; the record at position k has monthIndex k for every k of 0..N       *)
(* (ascending, no gap, no duplicate); and summary.months is N.             *)
(***************************************************************************)
C15_OneRecordPerMonth ==
  /\ \A k \in 1 .. Len(monthly) : monthly[k].monthIndex = k - 1
  /\ Returned =>
       /\ Len(monthly) = inputs.analysisYears * MonthsPerYear + 1
       /\ summary[1].months = inputs.analysisYears * MonthsPerYear

C15_Witness ==
  /\ Returned
  /\ inputs.analysisYears = 2
  /\ Len(monthly) = 25
  /\ Rec(24).monthIndex = 24
  /\ summary[1].months = 24

(***************************************************************************)
(* C16.  summary.buyTotalNPV is the last record's buyCumulativeNPV,        *)
(* summary.rentTotalNPV the last record's rentCumulativeNPV, and           *)
(* summary.npvDifference is rentTotalNPV - buyTotalNPV; for every horizon, *)
(* N = 0 included.                                                         *)
(***************************************************************************)
C16_TotalsAreLastCumulatives ==
  Returned =>
    /\ summary[1].buyTotalNPV = monthly[Len(monthly)].buyCumulativeNPV
    /\ summary[1].rentTotalNPV = monthly[Len(monthly)].rentCumulativeNPV
    /\ summary[1].npvDifference =
         summary[1].rentTotalNPV - summary[1].buyTotalNPV

C16_Witness ==
  /\ Returned
  /\ derived.months > 0
  /\ summary[1].rentTotalNPV < 0
  /\ summary[1].buyTotalNPV < summary[1].rentTotalNPV
  /\ summary[1].npvDifference > 0
  /\ summary[1].buyTotalNPV # Rec(0).buyCumulativeNPV

\* the horizon of no month: the totals are those of month 0
C16_ZeroHorizonWitness ==
  /\ Returned
  /\ derived.months = 0
  /\ summary[1].buyTotalNPV = Rec(0).buyCumulativeNPV
  /\ summary[1].npvDifference > 0

(***************************************************************************)
(* C18.  A zero-length mortgage term together with a positive loan amount  *)
(* makes runModel fail the whole call: it returns no monthly sequence and  *)
(* no summary.                                                             *)
(* runModel has no such check: the payment becomes 0 (line 62) and the     *)
(* call returns normally.                                                  *)
(***************************************************************************)
ZeroTermLoan ==
  /\ inputs.mortgageTermYears * MonthsPerYear = 0
  /\ FMul(inputs.homePrice, Scale - inputs.downPaymentPercent) > 0

C18_ZeroTermLoanRejected ==
  ZeroTermLoan => (~Returned /\ summary = Absent)

(***************************************************************************)
(* C20.  With analysisYears = 0 runModel succeeds and returns exactly one  *)
(* MonthRecord, month 0, with finite fields; the summary totals are month  *)
(* 0's cumulative NPVs; no amortization step, recurring cost or sale is    *)
(* computed.                                                               *)
(***************************************************************************)
NumberFields(r) == DOMAIN r \ {"date"}
Finite(x) == x \in Int /\ ~IsNaN(x) /\ Abs(x) # Infinity

C20_ZeroHorizonIsMonthZeroOnly ==
  (Returned /\ inputs.analysisYears = 0) =>
    /\ Len(monthly) = 1
    /\ Rec(0).monthIndex = 0
    /\ \A f \in NumberFields(Rec(0)) : Finite(Rec(0)[f])
    /\ summary[1].buyTotalNPV = Rec(0).buyCumulativeNPV
    /\ summary[1].rentTotalNPV = Rec(0).rentCumulativeNPV
    /\ Finite(summary[1].buyTotalNPV) /\ Finite(summary[1].rentTotalNPV)
    /\ Rec(0).mortgagePayment = 0
    /\ Rec(0).mortgageInterest = 0
    /\ Rec(0).mortgagePrincipal = 0
    /\ Rec(0).mortgageBalance = derived.loanAmount
    /\ mortgageBalances[0] = derived.loanAmount
    /\ Rec(0).propertyTax = 0
    /\ Rec(0).maintenance = 0
    /\ Rec(0).insurance = 0
    /\ Rec(0).hoa = 0
    /\ Rec(0).saleProceeds = 0
    /\ Rec(0).buyCF = -(derived.downPayment + derived.closingCosts
                          + derived.loanFees)
    /\ Rec(0).rentCF = 0

\* a financed purchase analysed over no month, with no sale year given: the
\* sell month is then month 0 itself
C20_Witness ==
  /\ Returned
  /\ inputs.analysisYears = 0
  /\ inputs.sellAfterYears = Absent
  /\ summary[1].sellMonthIndex = 0
  /\ derived.loanAmount > 0
  /\ derived.mortgagePayment > 0
  /\ Len(monthly) = 1

(***************************************************************************)
(* C17.  Scenario D, 30-year horizon, default inputs otherwise: with the   *)
(* mortgage rate 4% and the discount rate 7% the run with the 30-year term *)
(* has a strictly higher buyTotalNPV than the run with the 15-year term;   *)
(* with the mortgage rate 7% and the discount rate 3% the 15-year run has  *)
(* the strictly higher buyTotalNPV.                                        *)
(***************************************************************************)
BothRunsDone == Returned /\ previous # Absent

\* buyTotalNPV of the run with the given term, of the two runs made
BuyTotalOfTerm(years) ==
  IF inputs.mortgageTermYears = years
    THEN summary[1].buyTotalNPV
    ELSE previous[1].summary.buyTotalNPV

CheapMoney ==
  inputs.mortgageRateAnnual = Percent(4) /\ inputs.discountRateAnnual = Percent(7)

ExpensiveMoney ==
  inputs.mortgageRateAnnual = Percent(7) /\ inputs.discountRateAnnual = Percent(3)

C17_ExpensiveMoneyWitness ==
  /\ BothRunsDone
  /\ ExpensiveMoney
  /\ BuyTotalOfTerm(15) > BuyTotalOfTerm(30) + Dollars(100000)

(***************************************************************************)
(* C19.  When an annual rate given to the rate conversion is below -100%,  *)
(* runModel fails the whole call before it computes any month; it never    *)
(* returns a result in which a MonthRecord or Summary field is not a       *)
(* finite number.                                                          *)
(* runModel checks nothing: the monthly rate is NaN and the call returns.  *)
(***************************************************************************)
RecordsFinite ==
  \A k \in 1 .. Len(monthly) :
     \A f \in NumberFields(monthly[k]) : Finite(monthly[k][f])

SummaryFinite ==
  /\ Finite(summary[1].buyTotalNPV)
  /\ Finite(summary[1].rentTotalNPV)
  /\ Finite(summary[1].npvDifference)

C19_RateBelowMinusOneRejected ==
  /\ HasRateBelowMinusOne(inputs) => (monthly = << >> /\ summary = Absent)
  /\ Returned => (RecordsFinite /\ SummaryFinite)

\* the second half alone: what is returned is finite
C19_ReturnedResultIsFinite == Returned => (RecordsFinite /\ SummaryFinite)

(***************************************************************************)
(* C21.  Scenario C: with a down payment of 100% there is no loan: the     *)
(* balance, payment, interest and principal are 0 in every month 0..N, and *)
(* the equity of month 0 is the home price exactly.                        *)
(* The mortgage half holds; the records carry no equity (see C1).          *)
(***************************************************************************)
CashPurchase == inputs.downPaymentPercent = Percent(100)

NoMortgageActivity(r) ==
  /\ r.mortgageBalance = 0
  /\ r.mortgagePayment = 0
  /\ r.mortgageInterest = 0
  /\ r.mortgagePrincipal = 0

C21_CashPurchaseHasNoMortgage ==
  (CashPurchase /\ Len(monthly) >= 1) =>
    /\ \A k \in 1 .. Len(monthly) : NoMortgageActivity(monthly[k])
    /\ "equity" \in DOMAIN Rec(0)
    /\ Rec(0).equity = inputs.homePrice

\* the mortgage half alone
C21_CashPurchaseMortgageFieldsZero ==
  CashPurchase => \A k \in 1 .. Len(monthly) : NoMortgageActivity(monthly[k])

(***************************************************************************)
(* C22.  Scenario B: with a 0% mortgage rate the level payment is          *)
(* loanAmount / numPayments; in every month of the term the interest is 0  *)
(* and the principal is the payment (a $240,000 loan over 10 years pays    *)
(* exactly $2,000 each month); and the balance after the last payment of   *)
(* the term is exactly 0.                                                  *)
(* The last part holds only to within rounding: a payment that was rounded *)
(* down leaves a residue after the last month of the term.                 *)
(***************************************************************************)
ZeroRateLoan ==
  /\ pc # "start"
  /\ inputs.mortgageRateAnnual = 0
  /\ derived.mortgageTermMonths > 0

TermMonthsSoFar == {m \in Months : m <= derived.mortgageTermMonths}

StraightLinePayments ==
  /\ derived.mortgageRateMonthly = 0
  /\ derived.mortgagePayment =
       RDiv(derived.loanAmount, derived.mortgageTermMonths)
  /\ \A m \in TermMonthsSoFar :
        /\ Rec(m).mortgageInterest = 0
        /\ Rec(m).mortgagePrincipal = Rec(m).mortgagePayment
  /\ inputs = ScenarioB =>
        /\ derived.loanAmount = Dollars(240000)
        /\ \A m \in TermMonthsSoFar : Rec(m).mortgagePayment = Dollars(2000)

C22_ResidueWitness ==
  /\ ZeroRateLoan
  /\ derived.mortgageTermMonths + 1 \in Months
  /\ Rec(derived.mortgageTermMonths).mortgageBalance > 0
  /\ Rec(derived.mortgageTermMonths + 1).mortgageBalance = 0

(***************************************************************************)
(* C23.  Scenario A ($500,000 home, 20% down, 6% mortgage, 30-year term,   *)
(* 10-year horizon): the mortgage payment of month 1 is within $1 of       *)
(* $2,398, the interest of month 1 exceeds its principal, and the balance  *)
(* is strictly decreasing over the horizon.                                *)
(* $2,398 is the payment at the nominal monthly rate 6% / 12; runModel     *)
(* converts the rate by compounding and pays about $2,357.                 *)
(***************************************************************************)
InterestHeavyAndDecreasing ==
  /\ Rec(1).mortgageInterest > Rec(1).mortgagePrincipal
  /\ \A m \in Months : Rec(m).mortgageBalance < Rec(m - 1).mortgageBalance

C23_ScenarioAPaymentNominal ==
  (inputs = ScenarioA /\ Len(monthly) >= 2) =>
    /\ Abs(Rec(1).mortgagePayment - Dollars(2398)) <= Dollars(1)
    /\ InterestHeavyAndDecreasing

\* as amended: within $1 of $2,357
C23_ScenarioAPaymentCompounded ==
  (inputs = ScenarioA /\ Len(monthly) >= 2) =>
    /\ Abs(Rec(1).mortgagePayment - Dollars(2357)) <= Dollars(1)
    /\ InterestHeavyAndDecreasing

C23_Witness ==
  /\ Returned
  /\ inputs = ScenarioA
  /\ Len(monthly) = 121
  /\ Rec(0).mortgageBalance = Dollars(400000)
  /\ Rec(1).mortgagePayment > Dollars(2357)
  /\ Rec(1).mortgagePayment < Dollars(2358)
  /\ Rec(120).mortgageBalance < Rec(119).mortgageBalance
  /\ Rec(120).mortgageBalance > Dollars(300000)

(***************************************************************************)
(* C24.  discountFactors[0] is 1; under a positive discount rate the       *)
(* factors are strictly decreasing with 0 < factor <= 1; under a zero      *)
(* discount rate every factor is 1.  Each record carries the factor of     *)
(* its month.                                                              *)
(***************************************************************************)
C24_DiscountFactorsDecay ==
  pc # "start" =>
    /\ DOMAIN discountFactors = 0 .. derived.months
    /\ discountFactors[0] = Scale
    /\ inputs.discountRateAnnual > 0 =>
         \A k \in 1 .. derived.months :
            /\ discountFactors[k] < discountFactors[k - 1]
            /\ discountFactors[k] > 0
            /\ discountFactors[k] <= Scale
    /\ inputs.discountRateAnnual = 0 =>
         \A k \in 0 .. derived.months : discountFactors[k] = Scale
    /\ \A m \in 0 .. Len(monthly) - 1 :
         Rec(m).discountFactor = discountFactors[m]

C24_Witness ==
  /\ Returned
  /\ inputs.discountRateAnnual > 0
  /\ derived.months = 120
  /\ Rec(0).discountFactor = Scale
  /\ Rec(120).discountFactor < Rec(1).discountFactor
  /\ Rec(1).discountFactor < Scale
  /\ Rec(120).discountFactor > 0

C24_ZeroRateWitness ==
  /\ Returned
  /\ inputs.discountRateAnnual = 0
  /\ derived.months >= 12
  /\ Rec(derived.months).discountFactor = Scale

(***************************************************************************)
(* C25.  runModel is pure: calls given equal Inputs return equal monthly   *)
(* records and equal summaries whatever calls were made in between, each   *)
(* call builds its monthly array afresh, and no step of a call changes     *)
(* the Inputs it was given.                                                *)
(***************************************************************************)
EqualInputsEqualResults ==
  /\ \A a, b \in 1 .. Len(previous) :
        previous[a].inputs = previous[b].inputs =>
          /\ previous[a].monthly = previous[b].monthly
          /\ previous[a].summary = previous[b].summary
  /\ Returned =>
       \A a \in 1 .. Len(previous) :
          previous[a].inputs = inputs =>
            /\ previous[a].monthly = monthly
            /\ previous[a].summary = summary[1]

InputsLeftAlone == (pc # "done") => (inputs' = inputs)

C25_RunModelIsPure == [] EqualInputsEqualResults /\ [][InputsLeftAlone]_vars

C25_Witness ==
  /\ Returned
  /\ Len(previous) = 2
  /\ previous[1].inputs = inputs
  /\ previous[2].inputs # inputs
  /\ previous[2].monthly # monthly
  /\ previous[1].monthly = monthly
  /\ Len(monthly) = 13

(***************************************************************************)
(* C26.  Every MonthRecord carries percentagePaidOff, a number between 0   *)
(* and 1 inclusive, the no-loan case included.                             *)
(* The records built by runModel have no percentagePaidOff field.          *)
(***************************************************************************)
C26_PercentagePaidOffInUnitInterval ==
  \A k \in 1 .. Len(monthly) :
     /\ "percentagePaidOff" \in DOMAIN monthly[k]
     /\ monthly[k].percentagePaidOff >= 0
     /\ monthly[k].percentagePaidOff <= Scale

(***************************************************************************)
(* C27.  runModel evaluates the level-payment formula only for a positive  *)
(* number of payments, so the payment is never the outcome of a division   *)
(* by zero payments; for a non-positive term the level payment used by     *)
(* the loop is 0.                                                          *)
(***************************************************************************)
C27_PaymentFormulaOnlyForPositiveTerm ==
  pc # "start" =>
    /\ Finite(derived.mortgagePayment)
    /\ derived.mortgageTermMonths <= 0 =>
         /\ derived.mortgagePayment = 0
         /\ \A m \in Months : Rec(m).mortgagePayment = 0
    /\ derived.mortgageTermMonths > 0 =>
         derived.mortgagePayment =
           calculateMortgagePayment(derived.loanAmount,
                                    derived.mortgageRateMonthly,
                                    derived.mortgageTermMonths)

C27_Witness ==
  /\ Returned
  /\ derived.mortgageTermMonths = 0
  /\ derived.loanAmount > 0
  /\ derived.mortgagePayment = 0
  /\ Len(monthly) >= 13
  /\ Rec(1).mortgagePayment = 0

(***************************************************************************)
(* C28.  In every month 1..N the rent cash flow is                         *)
(* -(rentPayment + renterInsuranceMonthly + otherRentCostsMonthly), an     *)
(* absent optional cost counting as 0; with non-negative rent inputs it    *)
(* is never positive, and neither is summary.rentTotalNPV.                 *)
(***************************************************************************)
NonNegativeRentInputs ==
  /\ inputs.initialMonthlyRent >= 0
  /\ OrZero(inputs.renterInsuranceMonthly) >= 0
  /\ OrZero(inputs.otherRentCostsMonthly) >= 0

C28_RentCashFlowIsOutflow ==
  /\ \A m \in Months :
        /\ Rec(m).rentCF =
             -(Rec(m).rentPayment + OrZero(inputs.renterInsuranceMonthly)
                                  + OrZero(inputs.otherRentCostsMonthly))
        /\ NonNegativeRentInputs => Rec(m).rentCF <= 0
  /\ (Returned /\ NonNegativeRentInputs) => summary[1].rentTotalNPV <= 0

C28_Witness ==
  /\ Returned
  /\ inputs.renterInsuranceMonthly = Absent
  /\ inputs.otherRentCostsMonthly = Some(Dollars(25))
  /\ Len(monthly) >= 13
  /\ Rec(12).rentCF = -(Rec(12).rentPayment + Dollars(25))
  /\ Rec(12).rentPayment > Dollars(2000)
  /\ summary[1].rentTotalNPV < 0

(***************************************************************************)
(* C29.  saleProceeds is 0 in every record except the one of month         *)
(* sellMonthIndex (sellAfterYears x 12, or N when sellAfterYears is        *)
(* absent), where it is homeValue - sellingCostPercentOfHomeValue x        *)
(* homeValue - mortgageBalance of that month and enters that month's buyCF *)
(* once; month 0 never carries sale proceeds, and none are recorded when   *)
(* sellMonthIndex is 0 or greater than N.                                  *)
(***************************************************************************)
NetSaleOf(r) ==
  r.homeValue - FMul(r.homeValue, inputs.sellingCostPercentOfHomeValue)
              - r.mortgageBalance

SaleMonths == {m \in 0 .. Len(monthly) - 1 : Rec(m).saleProceeds # 0}

C29_NoSaleWitness ==
  /\ Returned
  /\ derived.sellMonthIndex > derived.months
  /\ SaleMonths = {}

(***************************************************************************)
(* C30.  A sale before the end of the horizon does not stop the buy        *)
(* scenario: in every month after sellMonthIndex up to N the mortgage      *)
(* keeps amortizing from the previous balance and the buy cash flow is     *)
(* -(mortgagePayment + propertyTax + maintenance + insurance + hoa), and   *)
(* summary.buyTotalNPV includes the discounted outflows of those months.   *)
(***************************************************************************)
SoldBeforeHorizonEnd ==
  /\ pc # "start"
  /\ inputs.sellAfterYears # Absent
  /\ derived.sellMonthIndex < derived.months

MonthsAfterSale == {m \in Months : m > derived.sellMonthIndex}

C30_BuyScenarioContinuesAfterSale ==
  SoldBeforeHorizonEnd =>
    /\ \A m \in MonthsAfterSale :
          /\ Rec(m).buyCF = -OutflowOf(Rec(m))
          /\ Rec(m).buyDiscountedCF = FMul(Rec(m).buyCF, Rec(m).discountFactor)
          /\ Amortizing(m) =>
               /\ Rec(m).mortgagePayment > 0
               /\ Rec(m).mortgageInterest =
                    FMul(Rec(m - 1).mortgageBalance, derived.mortgageRateMonthly)
               /\ Rec(m).mortgageBalance =
                    Rec(m - 1).mortgageBalance - Rec(m).mortgagePrincipal
    /\ Returned =>
         /\ Len(monthly) = derived.months + 1
         /\ MonthsAfterSale = derived.sellMonthIndex + 1 .. derived.months
         /\ summary[1].buyTotalNPV = SumBuyDiscountedCF(derived.months)

C30_Witness ==
  /\ Returned
  /\ SoldBeforeHorizonEnd
  /\ derived.sellMonthIndex = 12
  /\ derived.months = 24
  /\ inputs.mortgageTermYears = 2
  /\ Rec(12).mortgageBalance > 0
  /\ Rec(24).mortgagePayment > 0
  /\ Rec(24).mortgageBalance < Rec(13).mortgageBalance
  /\ Rec(24).buyCF = -OutflowOf(Rec(24))
  /\ summary[1].buyTotalNPV < SumBuyDiscountedCF(12)

====
